---- MODULE Spec2Model ----
(***************************************************************************)
(* deka: batch apply/delete of Kubernetes manifests (src/src/lib.rs).      *)
(* apply_objects fans a manifest list out to one apply_object future per   *)
(* manifest (for_each_concurrent, no limit) and aggregates their errors;   *)
(* apply_object resolves namespace and action once, then runs the          *)
(* discover -> patch/delete attempt inside backoff::future::retry.         *)
(* Option<T> values are modelled as sets: None is {}, Some(x) is {x}.      *)
(***************************************************************************)
EXTENDS Naturals, Sequences, FiniteSets

VARIABLES
    objects,            \* apply_objects argument: Vec<DynamicObject>
    namespace,          \* apply_objects argument: Option<&str>
    backoff,            \* apply_objects argument: the backoff template (&B)
    script,             \* per object: the answers the API server has in store
    next_obj,           \* position of stream::iter(objects)
    pc,                 \* per object: where its apply_object future stands
    action,             \* per object: the resolved Action
    obj_namespace,      \* per object: the resolved namespace
    bo,                 \* per object: backoff.clone() owned by retry()
    attempt,            \* per object: invocations of the retried operation
    in_attempt,         \* per object: API calls issued by the current attempt
    api,                \* per object: the Api the current attempt dispatches to
    sent,               \* per object: the patch/delete request in flight
    discovery_calls,    \* per object: discovery::pinned_kind calls
    patch_calls,        \* per object: api.patch calls
    delete_calls,       \* per object: api.delete calls
    resets,             \* per object: reset() calls on its backoff
    failures,           \* per object: attempts classified transient
    delays,             \* per object: delays obtained from next_backoff()
    outcome,            \* per object: which success branch ended it
    errors,             \* Arc<Mutex<Vec<ApplyError>>>: the vector
    strong_count,       \* Arc<..>: number of live references to errors
    result,             \* what apply_objects returned
    reset_calls,        \* MockBackoff.reset_calls (shared by all clones)
    next_backoff_calls, \* MockBackoff.next_backoff_calls (shared by all clones)
    requests            \* requests received by the API server

vars == <<objects, script, namespace, backoff, next_obj, pc, action, obj_namespace, bo,
          attempt, in_attempt, api, sent, discovery_calls, patch_calls,
          delete_calls, resets, failures, delays, outcome, errors, strong_count,
          result, reset_calls, next_backoff_calls, requests>>

(***************************************************************************)
(* Bounds of the model.                                                    *)
(***************************************************************************)
MaxObjects == 2
MaxRetryLimit == 2
MaxBatchRetryLimit == 1
MaxAttempts == 4

(***************************************************************************)
(* Values.                                                                 *)
(***************************************************************************)
None == {}
Some(x) == {x}
Unwrap(o) == CHOOSE x \in o : TRUE

ANNOTATION_ACTION == "deka.ndrpnt.dev/action"

\* Client::new(s, "default"): the client's default namespace.
ClientDefaultNamespace == "default"

\* The annotation values the manifests carry: none, the two kebab-case
\* tokens, two differently cased spellings and an unknown word.
AnnotationValues ==
    {None, Some("apply"), Some("delete"), Some("Apply"), Some("DELETE"), Some("invalid_action")}

\* A manifest: its metadata.namespace, its action annotation, its kind
\* (object.types, None when the manifest has none and line 114 falls back to
\* TypeMeta::default()), its metadata.name (None when name_any() finds none
\* and yields the empty string), its apiVersion ("unparseable" stands for a
\* string GroupVersionKind::try_from rejects) and its payload
\* ("unserializable" stands for one serde_json::to_value rejects).
AllManifests ==
    [namespace : {None, Some("another_ns")}, annotation : AnnotationValues,
     kind : {None, Some("Pod")}, name : {None, Some("example")},
     api_version : {"v1", "unparseable"},
     payload : {"serializable", "unserializable"}]

\* The manifests that pass the group/version and serialization checks.
Manifests ==
    {m \in AllManifests : m.api_version = "v1" /\ m.payload = "serializable"}

\* The manifests of the batch specification: kind and name are present and
\* the namespace is left unset.
BatchManifests ==
    {m \in Manifests :
        /\ m.namespace = None
        /\ m.annotation \in {None, Some("delete"), Some("invalid_action")}
        /\ m.kind # None
        /\ m.name # None}

Unresolved == "unresolved"
NoBackoff == [kind |-> "LimitAndCount", retries |-> 0, retry_limit |-> None, cloned |-> FALSE]
NoApi == [scope |-> "none", namespace |-> None]

\* Answers of discovery::pinned_kind: the kind with its scope, or an error.
DiscoveryAnswers == {"Namespaced", "Cluster", "MissingKind", "DiscoveryFailed"}
\* Answers of api.patch / api.delete: Ok, Err(Api 404), Err(Api other), and
\* the error of a request that could not be built.
DispatchAnswers == {"Ok", "Api404", "Api500", "BuildRequest"}

\* What discovery can answer for a manifest: the empty kind of
\* TypeMeta::default() is not a kind any API group serves.
DiscoveryAnswersFor(obj) ==
    IF obj.kind = None THEN {"MissingKind", "DiscoveryFailed"} ELSE DiscoveryAnswers

\* What api.patch(&name, ..) / api.delete(&name, ..) can answer: the empty
\* name of name_any() addresses no object, the request is refused.
DispatchAnswersFor(obj) ==
    IF obj.name = None THEN {"BuildRequest"} ELSE {"Ok", "Api404", "Api500"}

\* The server's answers to one object: free, or one pair of answers for each
\* attempt (the answer of discovery and the answer of the patch/delete call).
AnyAnswers == [scripted |-> FALSE, answers |-> <<>>]
AttemptAnswers ==
    {[discovery |-> "Namespaced", dispatch |-> "Ok"],
     [discovery |-> "Namespaced", dispatch |-> "Api500"],
     [discovery |-> "MissingKind", dispatch |-> "Ok"]}
Scripts == {[scripted |-> TRUE, answers |-> <<a1, a2>>] : a1, a2 \in AttemptAnswers}

\* The manifests of the scripted batches: an Apply and a Delete manifest.
ScriptedManifests == {m \in BatchManifests : m.annotation \in {None, Some("delete")}}

\* The template of the retry tests: LimitAndCount { retry_limit: Some(1), .. }.
ScriptedTemplate ==
    [kind |-> "LimitAndCount", retries |-> 0, retry_limit |-> Some(1), cloned |-> FALSE]

Objs == 1..Len(objects)
Terminal(i) == pc[i] \in {"succeeded", "failed"}

(***************************************************************************)
(* Pure helpers of apply_object.                                           *)
(***************************************************************************)
\* Mutant: the caller's default takes precedence over the manifest's namespace.
ResolveNamespace_ArgFirst(obj_ns, arg_ns, client_ns) ==
    IF arg_ns # None THEN Unwrap(arg_ns)
    ELSE IF obj_ns # None THEN Unwrap(obj_ns)
    ELSE client_ns

\* object.meta().namespace.as_deref().or(namespace).unwrap_or(client.default_namespace())
ResolveNamespace(obj_ns, arg_ns, client_ns) ==
    IF obj_ns # None THEN Unwrap(obj_ns)
    ELSE IF arg_ns # None THEN Unwrap(arg_ns)
    ELSE client_ns

\* Mutant: the derive also carries strum(ascii_case_insensitive).
ActionFromStr_CaseInsensitive(a) ==
    IF a \in {"apply", "Apply", "APPLY"} THEN [ok |-> TRUE, action |-> "Apply"]
    ELSE IF a \in {"delete", "Delete", "DELETE"} THEN [ok |-> TRUE, action |-> "Delete"]
    ELSE [ok |-> FALSE, action |-> Unresolved]

\* Action::from_str under strum(serialize_all = "kebab-case")
ActionFromStr(a) ==
    IF a = "apply" THEN [ok |-> TRUE, action |-> "Apply"]
    ELSE IF a = "delete" THEN [ok |-> TRUE, action |-> "Delete"]
    ELSE [ok |-> FALSE, action |-> Unresolved]

\* Mutant: an unparseable value falls back to the default action
\* (from_str(a).unwrap_or_default() instead of from_str(a)?).
ResolveAction_OrDefault(annotation) ==
    IF annotation = None \/ ~ActionFromStr(Unwrap(annotation)).ok
    THEN [ok |-> TRUE, action |-> "Apply"]
    ELSE ActionFromStr(Unwrap(annotation))

\* match object.annotations().get(ANNOTATION_ACTION) { Some(a) => from_str(a)?, None => default }
ResolveAction(annotation) ==
    IF annotation = None THEN [ok |-> TRUE, action |-> "Apply"]
    ELSE ActionFromStr(Unwrap(annotation))

\* Mutant: the Api is namespaced whatever the scope of the resource.
ApiFor_AlwaysNamespaced(scope, ns) == [scope |-> "Namespaced", namespace |-> Some(ns)]

\* match capabilities.scope { Cluster => Api::all_with, Namespaced => Api::namespaced_with }
ApiFor(scope, ns) ==
    IF scope = "Cluster" THEN [scope |-> "Cluster", namespace |-> None]
    ELSE [scope |-> "Namespaced", namespace |-> Some(ns)]

\* The manager argument of apply_objects: the field manager of every test.
manager == "test_manager"

\* object.name_any(): the name, or the empty string when there is none.
NameAny(obj) == IF obj.name = None THEN "" ELSE Unwrap(obj.name)

\* PatchParams::apply(manager).force()
PatchParams(m) == [patch_type |-> "apply", force |-> TRUE, field_manager |-> Some(m)]
\* DeleteParams::default()
DeleteParams == [patch_type |-> "none", force |-> FALSE, field_manager |-> None]

\* Mutant: every object is sent as a patch, whatever its action.
DispatchCall_AlwaysPatch(act) == "patch"

\* match action { Action::Apply => api.patch(..), Action::Delete => api.delete(..) }
DispatchCall(act) == IF act = "Apply" THEN "patch" ELSE "delete"

NoRequest == [verb |-> "none", scope |-> "none", namespace |-> None, name |-> "",
              params |-> DeleteParams]

\* api.patch(name, &params, data) / api.delete(name, &DeleteParams::default()):
\* the request goes to the Api's scope and namespace.
RequestFor(act, target, name) ==
    IF DispatchCall(act) = "patch"
    THEN [verb |-> "patch", scope |-> target.scope, namespace |-> target.namespace,
          name |-> name, params |-> PatchParams(manager)]
    ELSE [verb |-> "delete", scope |-> target.scope, namespace |-> target.namespace,
          name |-> name, params |-> DeleteParams]

(***************************************************************************)
(* The backoff: LimitAndCount behind MockBackoff.                          *)
(***************************************************************************)
\* backoff.clone(): the clone starts from the template's state.
CloneBackoff(b) == [b EXCEPT !.cloned = TRUE]

\* LimitAndCount does not override reset(): the trait's default leaves it as it is.
ResetBackoff(b) == b

\* LimitAndCount::next_backoff: the state after the call ...
NextBackoffState(b) == [b EXCEPT !.retries = b.retries + 1]
\* Mutant: no more than three attempts are made, whatever the backoff says.
NextBackoffYields_AttemptCap(b) ==
    /\ b.retries + 1 < 3
    /\ \/ b.kind = "ExponentialNoTimeout"
       \/ b.retry_limit # None /\ b.retries + 1 <= Unwrap(b.retry_limit)

\* ... and whether it yields a delay (Some(interval)) or gives up (None).
\* The ExponentialBackoff built with max_elapsed_time None always yields.
NextBackoffYields(b) ==
    \/ b.kind = "ExponentialNoTimeout"
    \/ b.retry_limit # None /\ b.retries + 1 <= Unwrap(b.retry_limit)

(***************************************************************************)
(* Classification of one attempt's answer (the closure given to retry).    *)
(*   "call"      discovery succeeded, the dispatch call is issued          *)
(*   "ok"        the operation returns Ok(())                              *)
(*   "transient" the operation returns Err(backoff::Error::transient(e))   *)
(***************************************************************************)
\* Mutant: the MissingKind arm for Delete is left out.
ClassifyDiscovery_MissingKindTransient(act, ans) ==
    IF ans \in {"Namespaced", "Cluster"} THEN "call" ELSE "transient"

\* Mutant: the MissingKind arm returns Ok(()) whatever the action.
ClassifyDiscovery_MissingKindOk(act, ans) ==
    IF ans \in {"Namespaced", "Cluster"} THEN "call"
    ELSE IF ans = "MissingKind" THEN "ok"
    ELSE "transient"

\* match discovery::pinned_kind(..).await { Ok(r) => r,
\*   Err(MissingKind) if action == &Action::Delete => return Ok(()),
\*   Err(e) => return Err(backoff::Error::transient(e)) }
ClassifyDiscovery(act, ans) ==
    IF ans \in {"Namespaced", "Cluster"} THEN "call"
    ELSE IF ans = "MissingKind" /\ act = "Delete" THEN "ok"
    ELSE "transient"

\* Mutant: the 404 arm of the delete call is left out.
ClassifyDispatch_NotFoundTransient(act, ans) ==
    IF ans = "Ok" THEN "ok" ELSE "transient"

\* Mutant: the 404 arm is taken for the patch call as well.
ClassifyDispatch_AnyNotFoundOk(act, ans) ==
    IF ans \in {"Ok", "Api404"} THEN "ok" ELSE "transient"

\* match resp { Ok(_) => Ok(()),
\*   Err(KubeError::Api(e)) if e.code == 404 => Ok(())   (delete only),
\*   Err(e) => Err(backoff::Error::transient(e)) }
ClassifyDispatch(act, ans) ==
    IF ans = "Ok" THEN "ok"
    ELSE IF act = "Delete" /\ ans = "Api404" THEN "ok"
    ELSE "transient"

\* The info! branch that ended the object.
OutcomeOf(act, ans) ==
    IF ans = "MissingKind" THEN "KindNotFound"
    ELSE IF ans = "Api404" THEN "NotFound"
    ELSE IF act = "Apply" THEN "Applied"
    ELSE "Deleted"

\* Mutant: only the action annotation is checked before the loop.
PreRetryCheck_ActionOnly(obj) ==
    IF ~ResolveAction(obj.annotation).ok THEN "StrumParse" ELSE "none"

\* The three `?` exits before retry, in the order of the code: the action
\* annotation, GroupVersionKind::try_from, serde_json::to_value. Absent
\* types are replaced by TypeMeta::default(), which is not rejected.
PreRetryCheck(obj) ==
    IF ~ResolveAction(obj.annotation).ok THEN "StrumParse"
    ELSE IF obj.kind # None /\ obj.api_version = "unparseable" THEN "ParseGroupVersion"
    ELSE IF obj.payload = "unserializable" THEN "Serde"
    ELSE "none"

KubeError(i, ans) == [type |-> "Kube", cause |-> ans, object |-> i, attempt |-> attempt[i]]
StrumParseError(i) == [type |-> "StrumParse", cause |-> "VariantNotFound", object |-> i, attempt |-> 0]

ParseGroupVersionError(i) ==
    [type |-> "ParseGroupVersion", cause |-> "ParseGroupVersionError", object |-> i, attempt |-> 0]
SerdeError(i) == [type |-> "Serde", cause |-> "serde_json::Error", object |-> i, attempt |-> 0]

\* The ApplyError the `?` builds from the failed check (#[from]).
PreRetryError(i, check) ==
    IF check = "StrumParse" THEN StrumParseError(i)
    ELSE IF check = "ParseGroupVersion" THEN ParseGroupVersionError(i)
    ELSE SerdeError(i)

\* Mutant: retry keeps the error of the first attempt and returns that one.
GiveUpError_FirstAttempt(i, e) == [e EXCEPT !.attempt = 1]

\* retry(): on give up the error of the failed attempt is returned.
GiveUpError(i, e) == e

\* Mutant: the task replaces the vector instead of pushing to it.
PushError_Overwrite(errs, e) == <<e>>

\* c_errors.lock().unwrap().push(e)
PushError(errs, e) == Append(errs, e)

\* Mutant: try_for_each_concurrent, which stops at the first error.
AllDone_AbortOnFirstFailure ==
    \/ errors # <<>>
    \/ next_obj > Len(objects) /\ \A i \in Objs : Terminal(i)

\* for_each_concurrent has finished: the stream is exhausted and no future is left.
AllDone == next_obj > Len(objects) /\ \A i \in Objs : Terminal(i)

\* Mutant: only the first error is reported.
BatchResult_FirstErrorOnly(errs) ==
    IF errs = <<>> THEN [status |-> "Ok", errors |-> <<>>]
    ELSE [status |-> "Err", errors |-> <<Head(errs)>>]

\* Mutant: the is_empty() test is left out.
BatchResult_NoEmptyCheck(errs) == [status |-> "Err", errors |-> errs]

\* if errors.is_empty() { Ok(()) } else { Err(ApplyErrors(errors)) }
BatchResult(errs) ==
    IF errs = <<>> THEN [status |-> "Ok", errors |-> <<>>]
    ELSE [status |-> "Err", errors |-> errs]

Running == [status |-> "Running", errors |-> <<>>]
Panicked == [status |-> "Panic", errors |-> <<>>]

(***************************************************************************)
(* Initial states.                                                         *)
(***************************************************************************)
RECURSIVE SeqsOf(_, _)
SeqsOf(S, n) ==
    IF n = 0 THEN {<<>>}
    ELSE LET shorter == SeqsOf(S, n - 1)
         IN shorter \cup {Append(s, x) : s \in {t \in shorter : Len(t) = n - 1}, x \in S}

\* LimitAndCount { retries: 0, retry_limit } as the tests build it.
Templates(limit) == {[kind |-> "LimitAndCount", retries |-> 0, retry_limit |-> l, cloned |-> FALSE] :
                        l \in {None} \cup {Some(n) : n \in 0..limit}}

InitOf(objs, namespaces, templates, scripts) ==
    /\ objects = objs
    /\ script \in scripts
    /\ namespace \in namespaces
    /\ backoff \in templates
    /\ next_obj = 1
    /\ pc = [i \in 1..Len(objs) |-> "pending"]
    /\ action = [i \in 1..Len(objs) |-> Unresolved]
    /\ obj_namespace = [i \in 1..Len(objs) |-> Unresolved]
    /\ bo = [i \in 1..Len(objs) |-> NoBackoff]
    /\ attempt = [i \in 1..Len(objs) |-> 0]
    /\ in_attempt = [i \in 1..Len(objs) |-> <<>>]
    /\ api = [i \in 1..Len(objs) |-> NoApi]
    /\ sent = [i \in 1..Len(objs) |-> NoRequest]
    /\ discovery_calls = [i \in 1..Len(objs) |-> 0]
    /\ patch_calls = [i \in 1..Len(objs) |-> 0]
    /\ delete_calls = [i \in 1..Len(objs) |-> 0]
    /\ resets = [i \in 1..Len(objs) |-> 0]
    /\ failures = [i \in 1..Len(objs) |-> 0]
    /\ delays = [i \in 1..Len(objs) |-> 0]
    /\ outcome = [i \in 1..Len(objs) |-> "none"]
    /\ errors = <<>>
    /\ strong_count = 1
    /\ result = Running
    /\ reset_calls = 0
    /\ next_backoff_calls = 0
    /\ requests = 0

\* The API server is free to answer every call with any answer.
InitWith(objs, namespaces, templates) ==
    InitOf(objs, namespaces, templates, {[i \in 1..Len(objs) |-> AnyAnswers]})

\* A batch of 0..MaxObjects manifests.
Init ==
    \E objs \in SeqsOf(BatchManifests, MaxObjects) :
        InitWith(objs, {Some("test_ns")}, Templates(MaxBatchRetryLimit))

\* One manifest of any shape: apply_object as the unit tests drive it.
InitObject ==
    \E m \in Manifests :
        InitWith(<<m>>, {None, Some("test_ns")}, Templates(MaxRetryLimit))

\* The backoff main.rs builds for --timeout 0: with_max_elapsed_time(None).
NoTimeoutTemplate ==
    [kind |-> "ExponentialNoTimeout", retries |-> 0, retry_limit |-> None, cloned |-> FALSE]

\* A batch of 0..MaxObjects manifests against a server whose answers to each
\* object's attempts are fixed beforehand, as the tests' mock server's are.
InitScripted ==
    \E objs \in SeqsOf(ScriptedManifests, MaxObjects) :
        InitOf(objs, {Some("test_ns")}, {ScriptedTemplate}, [1..Len(objs) -> Scripts])

\* One manifest under any backoff, the one that never gives up included.
InitAnyBackoff ==
    \E m \in Manifests :
        InitWith(<<m>>, {Some("test_ns")}, Templates(MaxRetryLimit) \cup {NoTimeoutTemplate})

\* One manifest, the ones the checks before the loop reject included.
InitChecks ==
    \E m \in AllManifests :
        InitWith(<<m>>, {Some("test_ns")}, Templates(MaxRetryLimit))

(***************************************************************************)
(* Steps of one object's future.                                           *)
(***************************************************************************)
\* Mutant: the backoff is reset once more when the object succeeds.
Succeed_AlsoResets(i, ans) ==
    /\ pc' = [pc EXCEPT ![i] = "succeeded"]
    /\ outcome' = [outcome EXCEPT ![i] = OutcomeOf(action[i], ans)]
    /\ strong_count' = strong_count - 1
    /\ api' = [api EXCEPT ![i] = NoApi]
    /\ sent' = [sent EXCEPT ![i] = NoRequest]
    /\ resets' = [resets EXCEPT ![i] = @ + 1]
    /\ reset_calls' = reset_calls + 1
    /\ UNCHANGED <<backoff, bo, failures, delays, errors, next_backoff_calls, in_attempt>>

\* Mutant: the backoff is asked for a delay after a success as well.
Succeed_AsksBackoff(i, ans) ==
    /\ pc' = [pc EXCEPT ![i] = "succeeded"]
    /\ outcome' = [outcome EXCEPT ![i] = OutcomeOf(action[i], ans)]
    /\ strong_count' = strong_count - 1
    /\ api' = [api EXCEPT ![i] = NoApi]
    /\ sent' = [sent EXCEPT ![i] = NoRequest]
    /\ bo' = [bo EXCEPT ![i] = NextBackoffState(@)]
    /\ next_backoff_calls' = next_backoff_calls + 1
    /\ UNCHANGED <<backoff, failures, delays, errors, in_attempt, resets, reset_calls>>

\* The future of object i completes with Ok(()): c_errors is dropped.
Succeed(i, ans) ==
    /\ pc' = [pc EXCEPT ![i] = "succeeded"]
    /\ outcome' = [outcome EXCEPT ![i] = OutcomeOf(action[i], ans)]
    /\ strong_count' = strong_count - 1
    /\ api' = [api EXCEPT ![i] = NoApi]
    /\ sent' = [sent EXCEPT ![i] = NoRequest]
    /\ UNCHANGED <<backoff, bo, failures, delays, errors, next_backoff_calls, in_attempt,
                   resets, reset_calls>>

\* Mutant: every clone counts on one shared counter.
BackoffOf_Shared(i) == [bo[i] EXCEPT !.retries = next_backoff_calls]

\* The backoff that object i's retry() owns and asks.
BackoffOf(i) == bo[i]

\* Mutant: retry is handed the caller's backoff itself, not a clone of it:
\* next_backoff() counts on the template.
Transient_OnTemplate(i, ans) ==
    /\ failures' = [failures EXCEPT ![i] = @ + 1]
    /\ backoff' = NextBackoffState(backoff)
    /\ bo' = [bo EXCEPT ![i] = NextBackoffState(backoff)]
    /\ next_backoff_calls' = next_backoff_calls + 1
    /\ api' = [api EXCEPT ![i] = NoApi]
    /\ sent' = [sent EXCEPT ![i] = NoRequest]
    /\ in_attempt' = [in_attempt EXCEPT ![i] = <<>>]
    /\ UNCHANGED <<outcome, resets, reset_calls>>
    /\ IF NextBackoffYields(backoff)
       THEN /\ delays' = [delays EXCEPT ![i] = @ + 1]
            /\ pc' = [pc EXCEPT ![i] = "sleep"]
            /\ UNCHANGED <<errors, strong_count>>
       ELSE /\ pc' = [pc EXCEPT ![i] = "failed"]
            /\ errors' = PushError(errors, GiveUpError(i, KubeError(i, ans)))
            /\ strong_count' = strong_count - 1
            /\ UNCHANGED delays

\* The operation returned a transient error: retry asks the backoff, then
\* either sleeps or returns the error, which the task pushes to c_errors.
Transient(i, ans) ==
    /\ failures' = [failures EXCEPT ![i] = @ + 1]
    /\ bo' = [bo EXCEPT ![i] = NextBackoffState(@)]
    /\ next_backoff_calls' = next_backoff_calls + 1
    /\ api' = [api EXCEPT ![i] = NoApi]
    /\ sent' = [sent EXCEPT ![i] = NoRequest]
    /\ in_attempt' = [in_attempt EXCEPT ![i] = <<>>]
    /\ UNCHANGED <<backoff, outcome, resets, reset_calls>>
    /\ IF NextBackoffYields(BackoffOf(i))
       THEN /\ delays' = [delays EXCEPT ![i] = @ + 1]
            /\ pc' = [pc EXCEPT ![i] = "sleep"]
            /\ UNCHANGED <<errors, strong_count>>
       ELSE /\ pc' = [pc EXCEPT ![i] = "failed"]
            /\ errors' = PushError(errors, GiveUpError(i, KubeError(i, ans)))
            /\ strong_count' = strong_count - 1
            /\ UNCHANGED delays

\* The attempt issues its discovery call.
IssueDiscovery(i) ==
    /\ attempt' = [attempt EXCEPT ![i] = @ + 1]
    /\ in_attempt' = [in_attempt EXCEPT ![i] = <<"discover">>]
    /\ discovery_calls' = [discovery_calls EXCEPT ![i] = @ + 1]
    /\ api' = [api EXCEPT ![i] = NoApi]
    /\ sent' = [sent EXCEPT ![i] = NoRequest]
    /\ requests' = requests + 1

\* Mutant: the clone is used as it is, reset() is never called.
StartRetry_NoReset(i) ==
    /\ bo' = [bo EXCEPT ![i] = CloneBackoff(backoff)]
    /\ UNCHANGED <<resets, reset_calls>>

\* backoff::future::retry(backoff.clone(), ..): retry takes the clone and
\* resets it once before the first attempt.
StartRetry(i) ==
    /\ bo' = [bo EXCEPT ![i] = ResetBackoff(CloneBackoff(backoff))]
    /\ resets' = [resets EXCEPT ![i] = @ + 1]
    /\ reset_calls' = reset_calls + 1

\* Mutant: for_each_concurrent(Some(1), ..): one future at a time.
ConcurrencyLimit_One == Some(1)

\* for_each_concurrent(None, ..): the limit argument.
ConcurrencyLimit == None

\* The futures for_each_concurrent holds that have not completed.
InFlight == {j \in Objs : pc[j] \in {"discover", "dispatch", "sleep"}}

\* for_each_concurrent takes the next manifest, clones the Arc and polls the
\* new future: apply_object runs up to its first await.
Spawn(i) ==
    /\ result = Running
    /\ i = next_obj
    /\ i \in Objs
    /\ \A limit \in ConcurrencyLimit : Cardinality(InFlight) < limit
    /\ next_obj' = next_obj + 1
    /\ LET parsed == ResolveAction(objects[i].annotation)
           check == PreRetryCheck(objects[i]) IN
       IF check = "none"
       THEN /\ obj_namespace' = [obj_namespace EXCEPT ![i] =
                    ResolveNamespace(objects[i].namespace, namespace, ClientDefaultNamespace)]
            /\ action' = [action EXCEPT ![i] = parsed.action]
            /\ StartRetry(i)
            /\ IssueDiscovery(i)
            /\ pc' = [pc EXCEPT ![i] = "discover"]
            /\ strong_count' = strong_count + 1
            /\ UNCHANGED <<errors, patch_calls, delete_calls, failures, delays,
                           outcome, next_backoff_calls>>
       ELSE /\ obj_namespace' = [obj_namespace EXCEPT ![i] =
                    ResolveNamespace(objects[i].namespace, namespace, ClientDefaultNamespace)]
            /\ pc' = [pc EXCEPT ![i] = "failed"]
            /\ action' = [action EXCEPT ![i] = parsed.action]
            /\ errors' = PushError(errors, PreRetryError(i, check))
            /\ UNCHANGED <<bo, resets, reset_calls, attempt, in_attempt,
                           discovery_calls, api, sent, requests, strong_count, patch_calls,
                           delete_calls, failures, delays, outcome,
                           next_backoff_calls>>
    /\ UNCHANGED <<objects, script, namespace, backoff, result>>

\* Mutant: once an attempt did not find the kind, the later attempts take
\* the kind for missing without looking at the new answer.
DiscoverySeen_NegativeCache(i, ans) ==
    IF failures[i] >= 1 /\ patch_calls[i] + delete_calls[i] = 0 THEN "MissingKind" ELSE ans

\* What the attempt matches on: the answer of its own pinned_kind call.
DiscoverySeen(i, ans) == ans

\* The server answers the call of object i's attempt with ans.
ServerAnswers(i, call, ans) ==
    IF script[i].scripted
    THEN /\ attempt[i] <= Len(script[i].answers)
         /\ script[i].answers[attempt[i]][call] = ans
    ELSE TRUE

\* discovery::pinned_kind answers.
DiscoverReturn(i, ans) ==
    /\ i \in Objs
    /\ pc[i] = "discover"
    /\ ans \in DiscoveryAnswersFor(objects[i])
    /\ ServerAnswers(i, "discovery", ans)
    /\ LET seen == DiscoverySeen(i, ans)
           class == ClassifyDiscovery(action[i], seen) IN
       CASE class = "call" ->
              /\ api' = [api EXCEPT ![i] = ApiFor(seen, obj_namespace[i])]
              /\ sent' = [sent EXCEPT ![i] =
                    RequestFor(action[i], ApiFor(seen, obj_namespace[i]), NameAny(objects[i]))]
              /\ pc' = [pc EXCEPT ![i] = "dispatch"]
              /\ requests' = requests + 1
              /\ in_attempt' = [in_attempt EXCEPT ![i] = Append(@, DispatchCall(action[i]))]
              /\ IF DispatchCall(action[i]) = "patch"
                 THEN /\ patch_calls' = [patch_calls EXCEPT ![i] = @ + 1]
                      /\ UNCHANGED delete_calls
                 ELSE /\ delete_calls' = [delete_calls EXCEPT ![i] = @ + 1]
                      /\ UNCHANGED patch_calls
              /\ UNCHANGED <<backoff, bo, failures, delays, outcome, errors,
                             strong_count, next_backoff_calls, resets, reset_calls>>
         [] class = "ok" ->
              /\ Succeed(i, seen)
              /\ UNCHANGED <<requests, patch_calls, delete_calls>>
         [] OTHER ->
              /\ Transient(i, seen)
              /\ UNCHANGED <<requests, patch_calls, delete_calls>>
    /\ UNCHANGED <<objects, script, namespace, next_obj, action, obj_namespace,
                   attempt, discovery_calls, result>>

\* api.patch / api.delete answers.
DispatchReturn(i, ans) ==
    /\ i \in Objs
    /\ pc[i] = "dispatch"
    /\ ans \in DispatchAnswersFor(objects[i])
    /\ ServerAnswers(i, "dispatch", ans)
    /\ IF ClassifyDispatch(action[i], ans) = "ok"
       THEN Succeed(i, ans)
       ELSE Transient(i, ans)
    /\ UNCHANGED <<objects, script, namespace, next_obj, action, obj_namespace,
                   attempt, discovery_calls, patch_calls, delete_calls,
                   result, requests>>

\* Mutant: the backoff is reset at the start of every attempt.
Wake_ResetEachAttempt(i) ==
    /\ i \in Objs
    /\ pc[i] = "sleep"
    /\ IssueDiscovery(i)
    /\ pc' = [pc EXCEPT ![i] = "discover"]
    /\ resets' = [resets EXCEPT ![i] = @ + 1]
    /\ reset_calls' = reset_calls + 1
    /\ UNCHANGED <<objects, script, namespace, backoff, next_obj, action, obj_namespace, bo,
                   patch_calls, delete_calls, failures, delays, outcome,
                   errors, strong_count, result, next_backoff_calls>>

\* Mutant: the resource found by an earlier attempt is kept, and the next
\* attempt goes straight to the patch or delete call.
Wake_ReusesMapping(i) ==
    /\ i \in Objs
    /\ pc[i] = "sleep"
    /\ IF patch_calls[i] + delete_calls[i] > 0
       THEN /\ attempt' = [attempt EXCEPT ![i] = @ + 1]
            /\ api' = [api EXCEPT ![i] = ApiFor("Namespaced", obj_namespace[i])]
            /\ sent' = [sent EXCEPT ![i] =
                  RequestFor(action[i], ApiFor("Namespaced", obj_namespace[i]), NameAny(objects[i]))]
            /\ requests' = requests + 1
            /\ pc' = [pc EXCEPT ![i] = "dispatch"]
            /\ IF action[i] = "Apply"
               THEN /\ patch_calls' = [patch_calls EXCEPT ![i] = @ + 1]
                    /\ in_attempt' = [in_attempt EXCEPT ![i] = <<"patch">>]
                    /\ UNCHANGED delete_calls
               ELSE /\ delete_calls' = [delete_calls EXCEPT ![i] = @ + 1]
                    /\ in_attempt' = [in_attempt EXCEPT ![i] = <<"delete">>]
                    /\ UNCHANGED patch_calls
            /\ UNCHANGED discovery_calls
       ELSE /\ IssueDiscovery(i)
            /\ pc' = [pc EXCEPT ![i] = "discover"]
            /\ UNCHANGED <<patch_calls, delete_calls>>
    /\ UNCHANGED <<objects, script, namespace, backoff, next_obj, action, obj_namespace, bo,
                   resets, failures, delays, outcome,
                   errors, strong_count, result, reset_calls, next_backoff_calls>>

\* Mutant: the next attempt is started without waiting for the answer of the
\* call in flight.
Wake_WithoutWaiting(i) ==
    /\ i \in Objs
    /\ pc[i] \in {"sleep", "dispatch"}
    /\ IssueDiscovery(i)
    /\ pc' = [pc EXCEPT ![i] = "discover"]
    /\ UNCHANGED <<objects, script, namespace, backoff, next_obj, action, obj_namespace, bo,
                   patch_calls, delete_calls, resets, failures, delays, outcome,
                   errors, strong_count, result, reset_calls, next_backoff_calls>>

\* Mutant: an object that has succeeded is reconciled again.
Wake_RepollsSucceeded(i) ==
    /\ i \in Objs
    /\ pc[i] \in {"sleep", "succeeded"}
    /\ attempt[i] < MaxAttempts
    /\ IssueDiscovery(i)
    /\ pc' = [pc EXCEPT ![i] = "discover"]
    /\ UNCHANGED <<objects, script, namespace, backoff, next_obj, action, obj_namespace, bo,
                   patch_calls, delete_calls, resets, failures, delays, outcome,
                   errors, strong_count, result, reset_calls, next_backoff_calls>>

\* The delay has elapsed: retry polls the operation again. (The model follows
\* an object up to MaxAttempts attempts.)
Wake(i) ==
    /\ i \in Objs
    /\ pc[i] = "sleep"
    /\ attempt[i] < MaxAttempts
    /\ IssueDiscovery(i)
    /\ pc' = [pc EXCEPT ![i] = "discover"]
    /\ UNCHANGED <<objects, script, namespace, backoff, next_obj, action, obj_namespace, bo,
                   patch_calls, delete_calls, resets, failures, delays, outcome,
                   errors, strong_count, result, reset_calls, next_backoff_calls>>

\* for_each_concurrent is done: unwrap the Arc and build the result.
Return ==
    /\ result = Running
    /\ AllDone
    /\ result' = IF strong_count = 1 THEN BatchResult(errors) ELSE Panicked
    /\ UNCHANGED <<objects, script, namespace, backoff, next_obj, pc, action, obj_namespace,
                   bo, attempt, in_attempt, api, sent, discovery_calls, patch_calls,
                   delete_calls, resets, failures, delays, outcome, errors,
                   strong_count, reset_calls, next_backoff_calls, requests>>

Next ==
    \/ \E i \in 1..MaxObjects : Spawn(i)
    \/ \E i \in 1..MaxObjects, ans \in DiscoveryAnswers : DiscoverReturn(i, ans)
    \/ \E i \in 1..MaxObjects, ans \in DispatchAnswers : DispatchReturn(i, ans)
    \/ \E i \in 1..MaxObjects : Wake(i)
    \/ Return

Spec == Init /\ [][Next]_vars

SpecObject == InitObject /\ [][Next]_vars

SpecChecks == InitChecks /\ [][Next]_vars

SpecAnyBackoff == InitAnyBackoff /\ [][Next]_vars

SpecScripted == InitScripted /\ [][Next]_vars

\* The API answers every call, every delay elapses and the executor polls a
\* future that can make progress: the system does not stop while a step is
\* possible.
Fairness == WF_vars(Next)

\* The batches of the fair specification run with the two templates of the
\* tests: retry_limit None (the default) and Some(1).
TestTemplates ==
    {[kind |-> "LimitAndCount", retries |-> 0, retry_limit |-> l, cloned |-> FALSE] : l \in {None, Some(1)}}

FairInit ==
    \E objs \in SeqsOf(BatchManifests, MaxObjects) :
        InitWith(objs, {Some("test_ns")}, TestTemplates)

FairSpec == FairInit /\ [][Next]_vars /\ Fairness

(***************************************************************************)
(* Properties.                                                             *)
(***************************************************************************)
Returned == result # Running
FailedObjs == {i \in Objs : pc[i] = "failed"}
SucceededObjs == {i \in Objs : pc[i] = "succeeded"}
ErrorsOf(i, errs) == SelectSeq(errs, LAMBDA e : e.object = i)
\* The object failed inside the retry loop (not in the checks before it).
FailedInLoop(i) == pc[i] = "failed" /\ attempt[i] > 0
\* The number of delays a fresh clone of the template yields before it gives up.
Budget(b) ==
    IF b.retry_limit = None \/ Unwrap(b.retry_limit) < b.retries THEN 0
    ELSE Unwrap(b.retry_limit) - b.retries

\* C1: when apply_objects has returned with M objects failed out of N, the
\* aggregate holds exactly M errors, one per failed object, the result is Ok
\* exactly when M = 0, and each of the N - M other objects has succeeded by
\* its own apply/delete call (an Apply object has issued its patch call and
\* got Ok; a Delete object ended in one of its success branches).
C1_AggregateHoldsOneErrorPerFailure ==
    Returned =>
        /\ result.status \in {"Ok", "Err"}
        /\ Len(result.errors) = Cardinality(FailedObjs)
        /\ (result.status = "Ok") <=> (FailedObjs = {})
        /\ \A i \in Objs :
              /\ i \in FailedObjs \cup SucceededObjs
              /\ i \in FailedObjs => Len(ErrorsOf(i, result.errors)) = 1
              /\ i \in SucceededObjs =>
                    /\ Len(ErrorsOf(i, result.errors)) = 0
                    /\ action[i] = "Apply" =>
                          outcome[i] = "Applied" /\ patch_calls[i] >= 1
                    /\ action[i] = "Delete" =>
                          outcome[i] \in {"Deleted", "NotFound", "KindNotFound"}

\* A batch of two has returned Err with one object failed and the other applied.
C1_Witness ==
    /\ result.status = "Err"
    /\ Len(objects) = 2
    /\ Cardinality(FailedObjs) = 1
    /\ \E i \in SucceededObjs : outcome[i] = "Applied"

AllTerminal == \A i \in Objs : Terminal(i)
SomeFailed == \E i \in Objs : pc[i] = "failed"

\* C2: under fairness every object of the batch reaches Succeeded or Failed
\* and apply_objects returns; once an object has failed its siblings still
\* all terminate; apply_objects returns only once every object is terminal;
\* and an object that fails in the retry loop has used its whole budget of
\* attempts, whatever its siblings did.
C2_EveryObjectTerminates ==
    /\ <>[](Returned /\ AllTerminal)
    /\ SomeFailed ~> AllTerminal
    /\ [](Returned => AllTerminal)
    /\ [](\A i \in Objs : FailedInLoop(i) => attempt[i] = Budget(backoff) + 1)

\* The first object has failed while its sibling is at its second attempt.
C2_Witness ==
    /\ Len(objects) = 2
    /\ pc[1] = "failed"
    /\ pc[2] = "discover"
    /\ attempt[2] = 2

\* C3: an object that succeeded with no failed attempt, by an Ok answer to
\* its patch or delete call, made one discovery call and one dispatch call;
\* its backoff saw one reset() and no next_backoff().
C3_FirstAttemptSuccess ==
    \A i \in Objs :
        (pc[i] = "succeeded" /\ failures[i] = 0 /\ outcome[i] \in {"Applied", "Deleted"}) =>
            /\ discovery_calls[i] = 1
            /\ patch_calls[i] + delete_calls[i] = 1
            /\ requests = 2
            /\ resets[i] = 1 /\ reset_calls = 1
            /\ bo[i].retries = 0 /\ next_backoff_calls = 0
            /\ errors = <<>>
            /\ Returned => result.status = "Ok"

\* apply_objects has returned Ok for one object applied at its first attempt.
C3_Witness ==
    /\ result.status = "Ok"
    /\ \E i \in Objs : failures[i] = 0 /\ outcome[i] = "Applied"

\* C4: an Apply object that succeeded after exactly one transient failure
\* (at discovery or at the patch call) made two attempts; its backoff saw one
\* next_backoff(), which yielded a delay, and one reset().
C4_OneRetryThenSuccess ==
    \A i \in Objs :
        (action[i] = "Apply" /\ pc[i] = "succeeded" /\ failures[i] = 1) =>
            /\ attempt[i] = 2 /\ discovery_calls[i] = 2
            /\ patch_calls[i] \in {1, 2}
            /\ delays[i] = 1
            /\ bo[i].retries = 1 /\ next_backoff_calls = 1
            /\ resets[i] = 1 /\ reset_calls = 1
            /\ outcome[i] = "Applied"
            /\ errors = <<>>
            /\ Returned => result.status = "Ok"

\* apply_objects has returned Ok for an object whose first patch call failed.
C4_Witness ==
    /\ result.status = "Ok"
    /\ \E i \in Objs : action[i] = "Apply" /\ failures[i] = 1 /\ patch_calls[i] = 2

\* C5: an object that failed in the retry loop after its backoff yielded k
\* delays (k is the template's budget) made k + 1 attempts, all of them
\* failed, and k + 1 next_backoff() calls; the one error it reports is the
\* error of attempt k + 1.
C5_ExhaustedRetriesReportLastError ==
    \A i \in Objs :
        FailedInLoop(i) =>
            /\ delays[i] = Budget(backoff)
            /\ attempt[i] = delays[i] + 1
            /\ discovery_calls[i] = delays[i] + 1
            /\ failures[i] = delays[i] + 1
            /\ bo[i].retries = delays[i] + 1
            /\ next_backoff_calls = delays[i] + 1
            /\ Len(ErrorsOf(i, errors)) = 1
            /\ ErrorsOf(i, errors)[1].type = "Kube"
            /\ ErrorsOf(i, errors)[1].attempt = attempt[i]
            /\ Returned => result = [status |-> "Err", errors |-> errors]

\* An object has failed after two delays, at its third attempt.
C5_Witness ==
    \E i \in Objs : FailedInLoop(i) /\ delays[i] = 2 /\ attempt[i] = 3 /\ Returned

\* C6: the step in which discovery answers "kind not found" to a Delete
\* object ends it as succeeded: no delete call and no other request is
\* issued, next_backoff() is not called, nothing is pushed to errors, and
\* reset() stays called once; at the first attempt the totals are zero
\* delete calls and zero next_backoff() calls.
C6_DeleteOfMissingKindSucceeds ==
    [][\A i \in Objs :
          (action[i] = "Delete" /\ DiscoverReturn(i, "MissingKind")) =>
              /\ pc'[i] = "succeeded"
              /\ delete_calls' = delete_calls
              /\ requests' = requests
              /\ next_backoff_calls' = next_backoff_calls
              /\ bo' = bo
              /\ errors' = errors
              /\ resets'[i] = 1 /\ reset_calls' = 1
              /\ attempt[i] = 1 => (delete_calls'[i] = 0 /\ next_backoff_calls' = 0)]_vars

\* A Delete object has succeeded on "kind not found" at its first attempt.
C6_Witness ==
    \E i \in Objs :
        /\ outcome[i] = "KindNotFound"
        /\ pc[i] = "succeeded"
        /\ delete_calls[i] = 0
        /\ next_backoff_calls = 0
        /\ reset_calls = 1

\* C7: the step in which the delete call of a Delete object is answered 404
\* ends it as succeeded, as an Ok answer does: next_backoff() is not called,
\* no failure is counted, nothing is pushed to errors and no request follows.
C7_DeleteOfAbsentObjectSucceeds ==
    [][\A i \in Objs :
          (action[i] = "Delete" /\ DispatchReturn(i, "Api404")) =>
              /\ pc'[i] = "succeeded"
              /\ next_backoff_calls' = next_backoff_calls
              /\ bo' = bo
              /\ failures' = failures
              /\ errors' = errors
              /\ requests' = requests
              /\ pc' = [pc EXCEPT ![i] = "succeeded"]
              /\ strong_count' = strong_count - 1
              /\ attempt[i] = 1 => next_backoff_calls' = 0]_vars

\* apply_objects has returned Ok for a Delete object answered 404, with no retry.
C7_Witness ==
    /\ result.status = "Ok"
    /\ \E i \in Objs : outcome[i] = "NotFound" /\ delete_calls[i] = 1
    /\ next_backoff_calls = 0

\* C8: an object whose action annotation is neither "apply" nor "delete"
\* has, once started, failed with the parse error and nothing else happened:
\* no attempt, no API call, no clone of the backoff, no reset() and no
\* next_backoff().
C8_InvalidActionFailsBeforeRetry ==
    \A i \in Objs :
        (pc[i] # "pending" /\ objects[i].annotation \notin {None, Some("apply"), Some("delete")}) =>
            /\ pc[i] = "failed"
            /\ attempt[i] = 0
            /\ discovery_calls[i] = 0 /\ patch_calls[i] = 0 /\ delete_calls[i] = 0
            /\ requests = 0
            /\ bo[i] = NoBackoff
            /\ resets[i] = 0 /\ reset_calls = 0
            /\ next_backoff_calls = 0
            /\ ErrorsOf(i, errors) = <<StrumParseError(i)>>
            /\ Returned => result.status = "Err"

\* apply_objects has returned Err for an object annotated "invalid_action".
C8_Witness ==
    /\ result.status = "Err"
    /\ \E i \in Objs : objects[i].annotation = Some("invalid_action") /\ pc[i] = "failed"

\* C9: in every state after its start, hence in every attempt, the namespace
\* of an object is the manifest's own if it has one, else the caller's
\* default if there is one, else the client's default; a dispatch to a
\* Namespaced resource addresses that namespace.
C9_NamespacePrecedence ==
    \A i \in Objs :
        LET expected ==
                IF objects[i].namespace # None THEN Unwrap(objects[i].namespace)
                ELSE IF namespace # None THEN Unwrap(namespace)
                ELSE ClientDefaultNamespace
        IN /\ pc[i] # "pending" => obj_namespace[i] = expected
           /\ (pc[i] = "dispatch" /\ api[i].scope = "Namespaced") =>
                 api[i].namespace = Some(expected)

\* A manifest with its own namespace, given a caller default too, dispatches
\* to its own namespace at its second attempt.
C9_Witness ==
    \E i \in Objs :
        /\ objects[i].namespace = Some("another_ns")
        /\ namespace = Some("test_ns")
        /\ pc[i] = "dispatch"
        /\ attempt[i] = 2
        /\ api[i] = [scope |-> "Namespaced", namespace |-> Some("another_ns")]

\* C10: with an empty manifest list no request is sent, reset() and
\* next_backoff() are never called, and apply_objects returns Ok.
C10_EmptyBatchSucceeds ==
    objects = <<>> =>
        /\ requests = 0
        /\ reset_calls = 0
        /\ next_backoff_calls = 0
        /\ errors = <<>>
        /\ Returned => result.status = "Ok"

\* apply_objects has returned Ok for the empty list.
C10_Witness == objects = <<>> /\ result.status = "Ok"

\* C11: for a batch of N >= 0 manifests in which no API call failed (every
\* object ended by an Ok answer to its patch or delete call, with no failed
\* attempt), apply_objects returns Ok, next_backoff() was never called and
\* reset() was called exactly N times, once per object, in every interleaving.
C11_CleanBatchResetsOncePerObject ==
    (Returned /\ \A i \in Objs : failures[i] = 0 /\ outcome[i] \in {"Applied", "Deleted"}) =>
        /\ result = [status |-> "Ok", errors |-> <<>>]
        /\ next_backoff_calls = 0
        /\ reset_calls = Len(objects)
        /\ \A i \in Objs : resets[i] = 1

\* A batch of two, one applied and one deleted at their first attempt, has returned.
C11_Witness ==
    /\ Returned
    /\ Len(objects) = 2
    /\ \A i \in Objs : failures[i] = 0
    /\ \E i, j \in Objs : outcome[i] = "Applied" /\ outcome[j] = "Deleted"
    /\ reset_calls = 2

\* C12: the action of an object is Apply when the annotation
\* deka.ndrpnt.dev/action is absent, Apply when its value is exactly "apply",
\* Delete when it is exactly "delete", and an error for every other value
\* ("Apply" and "DELETE" included): such an object fails before any attempt.
\* The action is derived once and stays the same through every attempt: the
\* calls an object issues are patch calls only for Apply and delete calls
\* only for Delete.
C12_ActionFollowsAnnotation ==
    \A i \in Objs :
        pc[i] # "pending" =>
            LET a == objects[i].annotation IN
            /\ a \in {None, Some("apply")} =>
                  action[i] = "Apply" /\ attempt[i] >= 1 /\ delete_calls[i] = 0
            /\ a = Some("delete") =>
                  action[i] = "Delete" /\ attempt[i] >= 1 /\ patch_calls[i] = 0
            /\ a \notin {None, Some("apply"), Some("delete")} =>
                  /\ action[i] = Unresolved
                  /\ pc[i] = "failed"
                  /\ attempt[i] = 0
                  /\ Len(ErrorsOf(i, errors)) = 1
                  /\ ErrorsOf(i, errors)[1].type = "StrumParse"

\* An object annotated "delete" issues the delete call of its second attempt.
C12_Witness ==
    \E i \in Objs :
        /\ objects[i].annotation = Some("delete")
        /\ pc[i] = "dispatch"
        /\ attempt[i] = 2
        /\ delete_calls[i] = 2

\* C13 as stated: reset() is called exactly once and only on success, after
\* the successful attempt, and never for an object that ends Failed. As a
\* state predicate: an object has one reset() when it has succeeded and none
\* in every other state.
C13_ResetOnlyOnSuccess ==
    \A i \in Objs :
        /\ pc[i] = "succeeded" => resets[i] = 1
        /\ pc[i] # "succeeded" => resets[i] = 0

\* C13, amended: reset() is called exactly once for every object that enters
\* the retry loop, before its first attempt and hence before every
\* next_backoff() call of that object, whatever the outcome: an object that
\* ends Failed in the loop has had its one reset() too; an object that fails
\* the checks before the loop has none.
C13_ResetOnceBeforeFirstAttempt ==
    \A i \in Objs :
        /\ resets[i] = (IF attempt[i] >= 1 THEN 1 ELSE 0)
        /\ bo[i].retries >= 1 => resets[i] = 1
        /\ FailedInLoop(i) => resets[i] = 1
        /\ (pc[i] = "failed" /\ attempt[i] = 0) => resets[i] = 0

\* Of a batch of two, one object failed in the loop after a retry and the
\* other succeeded after a retry: each has had one reset().
C13_Witness ==
    /\ Len(objects) = 2
    /\ \E i, j \in Objs :
          /\ FailedInLoop(i) /\ bo[i].retries = 2 /\ resets[i] = 1
          /\ pc[j] = "succeeded" /\ bo[j].retries = 1 /\ resets[j] = 1

\* C14: every attempt starts with a discovery call of its own, so an object
\* that ran k attempts made k discovery calls; no resource mapping is carried
\* from one attempt to the next (an attempt waiting for discovery holds no
\* Api); and a patch or delete call in flight was issued in the same attempt
\* after that attempt's discovery call had answered with the resource.
C14_EveryAttemptDiscovers ==
    \A i \in Objs :
        /\ discovery_calls[i] = attempt[i]
        /\ patch_calls[i] + delete_calls[i] <= discovery_calls[i]
        /\ pc[i] = "discover" => in_attempt[i] = <<"discover">> /\ api[i] = NoApi
        /\ pc[i] = "sleep" => api[i] = NoApi
        /\ pc[i] = "dispatch" =>
              /\ in_attempt[i] \in {<<"discover", "patch">>, <<"discover", "delete">>}
              /\ api[i] # NoApi

\* The patch call of a second attempt is in flight after a first attempt
\* whose patch call failed: two discovery calls, two patch calls.
C14_Witness ==
    \E i \in Objs :
        /\ pc[i] = "dispatch"
        /\ attempt[i] = 2
        /\ discovery_calls[i] = 2
        /\ patch_calls[i] = 2

\* C15: a manifest whose name or kind is absent is a caller error and not a
\* retryable condition: the object never succeeds, next_backoff() is never
\* called for it and it is never put to sleep for another attempt.
C15_AbsentNameOrKindIsNotRetried ==
    \A i \in Objs :
        (objects[i].name = None \/ objects[i].kind = None) =>
            /\ pc[i] # "succeeded"
            /\ pc[i] # "sleep"
            /\ bo[i].retries = 0
            /\ next_backoff_calls = 0

\* C16: the shared error vector loses no update in any interleaving: at every
\* moment it holds exactly one error for each object that has failed and none
\* for any other object. The Arc has one reference for apply_objects and one
\* for every task still running; the vector is read only when every task has
\* completed, so the unwrap finds one reference and never panics, and the
\* result carries every error pushed.
C16_ErrorCollectionLosesNothing ==
    /\ \A i \in Objs :
          Len(ErrorsOf(i, errors)) = (IF pc[i] = "failed" THEN 1 ELSE 0)
    /\ Len(errors) = Cardinality(FailedObjs)
    /\ strong_count = 1 + Cardinality({i \in Objs : pc[i] \in {"discover", "dispatch", "sleep"}})
    /\ result # Panicked
    /\ Returned =>
          /\ AllTerminal
          /\ strong_count = 1
          /\ result.errors = errors

\* A batch of two has returned with both objects failed in the retry loop:
\* both errors are in the result.
C16_Witness ==
    /\ Returned
    /\ Len(objects) = 2
    /\ \A i \in Objs : FailedInLoop(i)
    /\ Len(result.errors) = 2
    /\ strong_count = 1

\* C17: each object has a backoff of its own, cloned from the template: it
\* counts only the object's own next_backoff() calls, so the number of delays
\* an object obtains before it fails is the template's full budget, however
\* many next_backoff() calls its siblings have made.
C17_BackoffBudgetIsPerObject ==
    \A i \in Objs :
        attempt[i] >= 1 =>
            /\ bo[i].retry_limit = backoff.retry_limit
            /\ bo[i].retries = backoff.retries + failures[i]
            /\ delays[i] <= Budget(backoff)
            /\ pc[i] = "sleep" => delays[i] = failures[i]
            /\ FailedInLoop(i) =>
                  delays[i] = Budget(backoff) /\ failures[i] = Budget(backoff) + 1

\* Both objects of a batch failed after one delay each under a template that
\* allows one retry: four next_backoff() calls in all.
C17_Witness ==
    /\ Len(objects) = 2
    /\ Budget(backoff) = 1
    /\ \A i \in Objs : FailedInLoop(i) /\ delays[i] = 1
    /\ next_backoff_calls = 4

\* C18: within one object's retry loop attempts never overlap. Every attempt
\* before the current one has returned with a failure (the attempts started
\* are the failed ones plus at most one that is in flight or has succeeded),
\* the attempt in flight was started after the delay for it was obtained
\* (attempt k runs with k - 1 delays obtained), and an attempt waits for one
\* call only: its discovery call, or its patch or delete call once discovery
\* has answered; while the object sleeps or is terminal no call is in flight.
C18_AttemptsDoNotOverlap ==
    \A i \in Objs :
        /\ attempt[i] = failures[i] +
              (IF pc[i] \in {"discover", "dispatch", "succeeded"} THEN 1 ELSE 0)
        /\ pc[i] \in {"discover", "dispatch"} => delays[i] = attempt[i] - 1
        /\ pc[i] = "discover" => Len(in_attempt[i]) = 1
        /\ pc[i] = "dispatch" => Len(in_attempt[i]) = 2
        /\ pc[i] \in {"sleep", "failed"} => in_attempt[i] = <<>>
        /\ discovery_calls[i] + patch_calls[i] + delete_calls[i] <= 2 * attempt[i]

\* The second attempt's patch or delete call is in flight: the first attempt
\* has failed and one delay was obtained.
C18_Witness ==
    \E i \in Objs :
        /\ pc[i] = "dispatch"
        /\ attempt[i] = 2
        /\ failures[i] = 1
        /\ delays[i] = 1

\* C19: a call of apply_object that passes the checks before the retry loop
\* calls reset() exactly once, whatever its outcome: the count is one from the
\* first attempt on and stays one when the object succeeds, sleeps or fails.
\* An object that fails because the backoff gives up at the first transient
\* failure ends with one reset() call and one next_backoff() call. A call
\* that fails the checks before the loop calls neither.
C19_OneResetWhateverTheOutcome ==
    \A i \in Objs :
        /\ attempt[i] >= 1 => reset_calls = 1
        /\ attempt[i] = 0 => reset_calls = 0 /\ next_backoff_calls = 0
        /\ next_backoff_calls = failures[i]
        /\ (FailedInLoop(i) /\ failures[i] = 1) =>
              /\ reset_calls = 1
              /\ next_backoff_calls = 1
              /\ Returned => result.status = "Err" /\ Len(result.errors) = 1

\* apply_object has returned its error after the backoff gave up at the first
\* transient failure: one reset() call, one next_backoff() call.
C19_Witness ==
    /\ Returned
    /\ result.status = "Err"
    /\ \E i \in Objs : FailedInLoop(i) /\ failures[i] = 1 /\ attempt[i] = 1
    /\ reset_calls = 1
    /\ next_backoff_calls = 1

\* C20: for an Apply object the step in which discovery answers "kind not
\* found" is a transient failure: the object neither succeeds nor fails
\* outright; next_backoff() is asked once, no patch call is issued, and the
\* object sleeps for another attempt while its budget lasts. It fails only
\* when the backoff gives up, that is when the delays already obtained equal
\* the template's budget, and then with the kind-not-found error.
C20_ApplyKindNotFoundIsTransient ==
    [][\A i \in Objs :
          (action[i] = "Apply" /\ DiscoverReturn(i, "MissingKind")) =>
              /\ pc'[i] \in {"sleep", "failed"}
              /\ outcome'[i] = "none"
              /\ failures'[i] = failures[i] + 1
              /\ next_backoff_calls' = next_backoff_calls + 1
              /\ patch_calls' = patch_calls
              /\ (pc'[i] = "failed") <=> (delays[i] = Budget(backoff))
              /\ pc'[i] = "sleep" => (errors' = errors /\ delays'[i] = delays[i] + 1)
              /\ pc'[i] = "failed" =>
                    /\ Len(errors') = Len(errors) + 1
                    /\ errors'[Len(errors')].type = "Kube"
                    /\ errors'[Len(errors')].cause = "MissingKind"]_vars

\* An Apply object failed with the kind-not-found error at its third attempt,
\* having issued no patch call: it was retried twice before the backoff gave up.
C20_Witness ==
    \E i \in Objs :
        /\ action[i] = "Apply"
        /\ FailedInLoop(i)
        /\ attempt[i] = 3
        /\ patch_calls[i] = 0
        /\ ErrorsOf(i, errors)[1].cause = "MissingKind"

\* C21: the step in which the patch call of an Apply object answers with any
\* failure (404, another status code, or a request that could not be built),
\* or the delete call of a Delete object answers with a failure other than
\* 404, is a transient failure: the object neither succeeds nor fails
\* outright; next_backoff() is asked once and the object sleeps for another
\* attempt, or fails exactly when the backoff gives up (the delays obtained
\* equal the template's budget), and then with that answer's error.
C21_DispatchFailuresAreTransient ==
    [][\A i \in Objs : \A ans \in DispatchAnswers \ {"Ok"} :
          ((action[i] = "Apply" \/ ans # "Api404") /\ DispatchReturn(i, ans)) =>
              /\ pc'[i] \in {"sleep", "failed"}
              /\ outcome'[i] = "none"
              /\ failures'[i] = failures[i] + 1
              /\ next_backoff_calls' = next_backoff_calls + 1
              /\ bo'[i].retries = bo[i].retries + 1
              /\ (pc'[i] = "failed") <=> (delays[i] = Budget(backoff))
              /\ pc'[i] = "sleep" => (errors' = errors /\ delays'[i] = delays[i] + 1)
              /\ pc'[i] = "failed" =>
                    /\ Len(errors') = Len(errors) + 1
                    /\ errors'[Len(errors')].type = "Kube"
                    /\ errors'[Len(errors')].cause = ans]_vars

\* An Apply object was retried after a 404 answer to its patch call and
\* failed with a 404 answer to its second patch call.
C21_Witness ==
    \E i \in Objs :
        /\ action[i] = "Apply"
        /\ FailedInLoop(i)
        /\ attempt[i] = 2
        /\ patch_calls[i] = 2
        /\ ErrorsOf(i, errors)[1].cause = "Api404"

\* C22: a manifest whose action annotation is valid and whose group/version
\* is rejected by the parse, or whose payload cannot be serialized, fails
\* before the retry loop starts: the object is failed with the
\* ParseGroupVersion error (the parse comes first) or the Serde error, with
\* no attempt, no API call, no reset() call and no next_backoff() call, and
\* apply_objects returns that one error.
C22_ParseAndSerdeFailuresArePreRetry ==
    \A i \in Objs :
        LET obj == objects[i]
            badGv == obj.kind # None /\ obj.api_version = "unparseable"
            badPayload == obj.payload = "unserializable"
        IN (/\ pc[i] # "pending"
            /\ obj.annotation \in {None, Some("apply"), Some("delete")}
            /\ badGv \/ badPayload) =>
               /\ pc[i] = "failed"
               /\ attempt[i] = 0
               /\ discovery_calls[i] = 0 /\ patch_calls[i] = 0 /\ delete_calls[i] = 0
               /\ requests = 0
               /\ resets[i] = 0 /\ reset_calls = 0
               /\ bo[i] = NoBackoff /\ next_backoff_calls = 0
               /\ Len(ErrorsOf(i, errors)) = 1
               /\ ErrorsOf(i, errors)[1].type =
                     (IF badGv THEN "ParseGroupVersion" ELSE "Serde")
               /\ Returned => result = [status |-> "Err", errors |-> errors]

\* apply_objects has returned the Serde error of a manifest whose payload
\* cannot be serialized.
C22_Witness ==
    /\ Returned
    /\ \E i \in Objs :
          /\ objects[i].payload = "unserializable"
          /\ objects[i].api_version = "v1"
          /\ pc[i] = "failed"
          /\ result.errors[1].type = "Serde"

\* C23: once an object is in the retry loop, the only step that makes it
\* Failed is the answer of a call of the attempt in flight on which
\* next_backoff() is asked and gives up: the backoff's budget of delays is
\* used up at that step. The reconciler has no cap, timeout or cancellation
\* of its own: under the backoff that never gives up no object of the loop
\* ever fails, and an object all of whose attempts have failed is not
\* terminal.
C23_OnlyGiveUpLeadsToFailed ==
    /\ [][\A i \in Objs :
            (attempt[i] >= 1 /\ pc[i] # "failed" /\ pc'[i] = "failed") =>
                /\ pc[i] \in {"discover", "dispatch"}
                /\ next_backoff_calls' = next_backoff_calls + 1
                /\ bo'[i].retries = bo[i].retries + 1
                /\ backoff.kind = "LimitAndCount"
                /\ delays[i] = Budget(backoff)]_vars
    /\ [](backoff.kind = "ExponentialNoTimeout" =>
            \A i \in Objs :
                attempt[i] >= 1 =>
                    /\ pc[i] # "failed"
                    /\ failures[i] = attempt[i] => pc[i] = "sleep")

\* Under the backoff that never gives up an object sleeps after its third
\* failed attempt.
C23_Witness ==
    /\ backoff.kind = "ExponentialNoTimeout"
    /\ \E i \in Objs : pc[i] = "sleep" /\ failures[i] = 3 /\ attempt[i] = 3

RECURSIVE SumTo(_, _)
SumTo(f, n) == IF n = 0 THEN 0 ELSE f[n] + SumTo(f, n - 1)

\* C24: in every reachable state the next_backoff() calls made on an object's
\* backoff are as many as its attempts that have returned a transient
\* failure, which are all its attempts but the one in flight or the one that
\* succeeded: none before the first attempt has returned, none at a success
\* and none at a benign delete outcome. The shared counter is the sum over
\* the objects.
C24_OneNextBackoffPerTransientFailure ==
    /\ \A i \in Objs :
          /\ bo[i].retries = failures[i]
          /\ bo[i].retries = attempt[i] -
                (IF pc[i] \in {"discover", "dispatch", "succeeded"} THEN 1 ELSE 0)
          /\ bo[i].retries = delays[i] + (IF FailedInLoop(i) THEN 1 ELSE 0)
          /\ outcome[i] \in {"NotFound", "KindNotFound"} => bo[i].retries = attempt[i] - 1
    /\ next_backoff_calls = SumTo(failures, Len(objects))

\* A Delete object has ended on a 404 answer at its second attempt, with one
\* next_backoff() call, while its sibling failed after two.
C24_Witness ==
    \E i, j \in Objs :
        /\ outcome[i] = "NotFound" /\ attempt[i] = 2 /\ bo[i].retries = 1
        /\ FailedInLoop(j) /\ bo[j].retries = 2
        /\ next_backoff_calls = 3

\* C25: while an object sleeps on the delay next_backoff() yielded, no call
\* of it is in flight and none is issued: its call counters and the requests
\* the server has received stay as they are. The step that ends the sleep
\* starts the next attempt at discovery: one discovery call is issued and no
\* patch or delete call, also when the failed attempt had reached its patch
\* or delete call.
C25_SleepThenRediscover ==
    [][\A i \in Objs :
          pc[i] = "sleep" =>
              /\ in_attempt[i] = <<>>
              /\ api[i] = NoApi
              /\ pc'[i] \in {"sleep", "discover"}
              /\ pc'[i] = "sleep" =>
                    /\ discovery_calls'[i] = discovery_calls[i]
                    /\ patch_calls'[i] = patch_calls[i]
                    /\ delete_calls'[i] = delete_calls[i]
                    /\ attempt'[i] = attempt[i]
                    /\ requests' = requests
              /\ pc'[i] = "discover" =>
                    /\ attempt'[i] = attempt[i] + 1
                    /\ discovery_calls'[i] = discovery_calls[i] + 1
                    /\ patch_calls'[i] = patch_calls[i]
                    /\ delete_calls'[i] = delete_calls[i]
                    /\ in_attempt'[i] = <<"discover">>
                    /\ requests' = requests + 1]_vars

\* A second attempt waits for its discovery call after a first attempt whose
\* delete call failed.
C25_Witness ==
    \E i \in Objs :
        /\ pc[i] = "discover"
        /\ attempt[i] = 2
        /\ delete_calls[i] = 1
        /\ discovery_calls[i] = 2

\* C26: an Apply object whose earlier attempts all failed at discovery (no
\* patch call issued so far) and whose discovery call now answers with the
\* resource issues its patch call in that same step, to the Api of the
\* answered scope, without asking the backoff; and the step in which the
\* patch call of an Apply object answers Ok ends the object as succeeded.
C26_ApplySelfHealsOnceDiscoverable ==
    [][\A i \in Objs :
          action[i] = "Apply" =>
              /\ \A scope \in {"Namespaced", "Cluster"} :
                    (failures[i] >= 1 /\ patch_calls[i] = 0 /\ DiscoverReturn(i, scope)) =>
                        /\ pc'[i] = "dispatch"
                        /\ patch_calls'[i] = 1
                        /\ api'[i] = ApiFor(scope, obj_namespace[i])
                        /\ in_attempt'[i] = <<"discover", "patch">>
                        /\ next_backoff_calls' = next_backoff_calls
                        /\ failures' = failures
              /\ DispatchReturn(i, "Ok") =>
                    /\ pc'[i] = "succeeded"
                    /\ outcome'[i] = "Applied"
                    /\ errors' = errors]_vars

\* An Apply object succeeded at its third attempt with its only patch call:
\* the first two attempts had failed at discovery.
C26_Witness ==
    \E i \in Objs :
        /\ action[i] = "Apply"
        /\ pc[i] = "succeeded"
        /\ outcome[i] = "Applied"
        /\ discovery_calls[i] = 3
        /\ failures[i] = 2
        /\ patch_calls[i] = 1

\* C27: the step in which discovery answers with a resource sends the patch
\* or delete request to the scope of that answer: for a Namespaced resource
\* under the object's resolved namespace, for a Cluster resource cluster-wide
\* with no namespace, whatever the resolved namespace is. The request names
\* the object; for Apply it is a patch of type apply, forced, under the
\* caller's field manager, for Delete a delete request.
C27_DispatchTargetFollowsScope ==
    [][\A i \in Objs : \A scope \in {"Namespaced", "Cluster"} :
          DiscoverReturn(i, scope) =>
              /\ sent'[i].scope = scope
              /\ sent'[i].namespace =
                    (IF scope = "Namespaced" THEN Some(obj_namespace[i]) ELSE None)
              /\ sent'[i].name = NameAny(objects[i])
              /\ api'[i].scope = scope
              /\ action[i] = "Apply" =>
                    /\ sent'[i].verb = "patch"
                    /\ sent'[i].params =
                          [patch_type |-> "apply", force |-> TRUE,
                           field_manager |-> Some("test_manager")]
              /\ action[i] = "Delete" => sent'[i].verb = "delete"]_vars

\* The patch of a manifest that names a namespace is in flight to a
\* cluster-scoped resource: the request carries no namespace.
C27_Witness ==
    \E i \in Objs :
        /\ pc[i] = "dispatch"
        /\ objects[i].namespace = Some("another_ns")
        /\ sent[i].verb = "patch"
        /\ sent[i].scope = "Cluster"
        /\ sent[i].namespace = None

\* C28: apply_objects starts one reconciliation per manifest and holds none
\* back: the objects started are exactly those taken from the stream, and as
\* long as a manifest is left the next object can be started, however many
\* objects are in flight.
C28_NoConcurrencyBound ==
    /\ {i \in Objs : pc[i] # "pending"} = 1..(next_obj - 1)
    /\ Cardinality(InFlight) <= Len(objects)
    /\ (result = Running /\ next_obj \in Objs) => ENABLED Spawn(next_obj)

\* Every object of a batch of two has a call of its attempt in flight at the
\* same time.
C28_Witness ==
    /\ Len(objects) = 2
    /\ \A i \in Objs : pc[i] \in {"discover", "dispatch"}
    /\ Cardinality(InFlight) = 2
    /\ requests >= 2

\* C30: Succeeded and Failed are absorbing. In every step taken while an
\* object is terminal (steps of its siblings and the return of apply_objects
\* included) the object stays in its state, issues no discovery, patch or
\* delete call, has no request in flight, its backoff sees no reset() and no
\* next_backoff(), and its error, if any, stays the one it has.
C30_TerminalStatesAreAbsorbing ==
    [][\A i \in Objs :
          Terminal(i) =>
              /\ pc'[i] = pc[i]
              /\ outcome'[i] = outcome[i]
              /\ attempt'[i] = attempt[i]
              /\ discovery_calls'[i] = discovery_calls[i]
              /\ patch_calls'[i] = patch_calls[i]
              /\ delete_calls'[i] = delete_calls[i]
              /\ resets'[i] = resets[i]
              /\ bo'[i] = bo[i]
              /\ failures'[i] = failures[i]
              /\ delays'[i] = delays[i]
              /\ in_attempt'[i] = in_attempt[i]
              /\ sent'[i] = NoRequest
              /\ ErrorsOf(i, errors') = ErrorsOf(i, errors)]_vars

\* apply_objects has returned a batch of two: the first object had succeeded
\* at its first attempt before its sibling failed at its second.
C30_Witness ==
    /\ Returned
    /\ Len(objects) = 2
    /\ pc[1] = "succeeded" /\ attempt[1] = 1
    /\ pc[2] = "failed" /\ attempt[2] = 2
    /\ errors[1].object = 2

\* What apply_object makes of a manifest when it runs alone against the
\* answers in store for it: its attempts in sequence, from attempt k on.
RECURSIVE RunAlone(_, _, _, _, _)
RunAlone(i, act, b, answers, k) ==
    LET a == answers[k]
        found == ClassifyDiscovery(act, a.discovery) = "call"
        class == IF found THEN ClassifyDispatch(act, a.dispatch)
                 ELSE ClassifyDiscovery(act, a.discovery)
        cause == IF found THEN a.dispatch ELSE a.discovery
    IN IF class = "ok" THEN [pc |-> "succeeded", errors |-> {}]
       ELSE IF NextBackoffYields(b) THEN RunAlone(i, act, NextBackoffState(b), answers, k + 1)
       ELSE [pc |-> "failed",
             errors |-> {[type |-> "Kube", cause |-> cause, object |-> i, attempt |-> k]}]

ExpectedOf(i) ==
    RunAlone(i, ResolveAction(objects[i].annotation).action,
             ResetBackoff(CloneBackoff(backoff)), script[i].answers, 1)

ExpectedErrors == UNION {ExpectedOf(i).errors : i \in Objs}

\* C29: with the answers to each object's attempts fixed, the result of
\* apply_objects is the same in every interleaving of the object tasks: each
\* object ends as it would when run alone, and the result is Ok when no
\* object fails alone and otherwise Err with exactly the errors of the
\* objects that fail alone, one each, in whatever order they were pushed.
C29_ResultIndependentOfInterleaving ==
    /\ \A i \in Objs : Terminal(i) => pc[i] = ExpectedOf(i).pc
    /\ Returned =>
          /\ result.status = (IF ExpectedErrors = {} THEN "Ok" ELSE "Err")
          /\ {result.errors[k] : k \in 1..Len(result.errors)} = ExpectedErrors
          /\ Len(result.errors) = Cardinality(ExpectedErrors)

\* apply_objects has returned the errors of two failed objects with the error
\* of the second object pushed first.
C29_Witness ==
    /\ Returned
    /\ Len(objects) = 2
    /\ Len(result.errors) = 2
    /\ result.errors[1].object = 2
    /\ result.errors[2].object = 1
    /\ \A i \in Objs : script[i].scripted

\* The calls of kind `call` among the calls an object has issued in its
\* current attempt.
CallsInAttempt(i, call) ==
    {k \in 1..Len(in_attempt[i]) : in_attempt[i][k] = call}

\* C31: the dispatch call of every attempt is the one of the resolved action:
\* an object whose action is Delete never issues a patch call, an object whose
\* action is Apply never issues a delete call, in the first attempt and in
\* every retry; and the request in flight is a delete for Delete and a patch
\* for Apply.
C31_DispatchMatchesAction ==
    \A i \in Objs :
        /\ action[i] = "Delete" =>
              /\ patch_calls[i] = 0
              /\ CallsInAttempt(i, "patch") = {}
              /\ sent[i].verb \in {"none", "delete"}
              /\ pc[i] = "dispatch" => sent[i].verb = "delete"
        /\ action[i] = "Apply" =>
              /\ delete_calls[i] = 0
              /\ CallsInAttempt(i, "delete") = {}
              /\ sent[i].verb \in {"none", "patch"}
              /\ pc[i] = "dispatch" => sent[i].verb = "patch"
        /\ action[i] = Unresolved =>
              patch_calls[i] = 0 /\ delete_calls[i] = 0

\* A Delete object has its third delete call in flight, after two attempts
\* whose delete call failed, and has never issued a patch.
C31_Witness ==
    \E i \in Objs :
        /\ action[i] = "Delete"
        /\ pc[i] = "dispatch"
        /\ attempt[i] = 3
        /\ delete_calls[i] = 3
        /\ patch_calls[i] = 0
        /\ sent[i].verb = "delete"

\* C32: no step of apply_objects or apply_object changes the backoff template
\* the caller handed in: every reset() and every next_backoff() acts on the
\* clone that one object's retry owns, so the template after the batch is the
\* template before it, whatever retries happened.
C32_TemplateNeverModified ==
    [][/\ backoff' = backoff
       /\ \A i \in Objs : bo'[i] # bo[i] => bo'[i].cloned
       /\ reset_calls' # reset_calls =>
             \E i \in Objs :
                 /\ pc[i] = "pending"
                 /\ bo'[i] = ResetBackoff(CloneBackoff(backoff))
                 /\ \A j \in Objs \ {i} : bo'[j] = bo[j]
       /\ next_backoff_calls' # next_backoff_calls =>
             \E i \in Objs :
                 /\ bo[i].cloned
                 /\ bo'[i] = NextBackoffState(bo[i])
                 /\ \A j \in Objs \ {i} : bo'[j] = bo[j]]_vars

\* apply_objects has returned after two objects each used up the retries of
\* their own clone, and the template still counts no retry and is no clone.
C32_Witness ==
    /\ Returned
    /\ Len(objects) = 2
    /\ \A i \in Objs : bo[i].cloned /\ bo[i].retries = 2 /\ pc[i] = "failed"
    /\ next_backoff_calls = 4
    /\ reset_calls = 2
    /\ backoff.retries = 0
    /\ ~backoff.cloned

====
